---- MODULE Spec2Model ----
(***************************************************************************)
(* Model of src/src/layer.rs: the Stackdriver tracing layer.               *)
(*                                                                         *)
(* State: the layer value (make_writer, log_span), the span registry the   *)
(* layer reads through Context (live spans, each span's extension slot of  *)
(* type FormattedFields<StackdriverFields>, each thread's current span),   *)
(* the position of every thread inside Layer::on_event / Stackdriver::visit *)
(* with visit's locals, and the calls each event makes on the sink         *)
(* (make_writer, write_all with its payload).                              *)
(*                                                                         *)
(* Text is modelled as a sequence of tokens ("{", one token per object     *)
(* entry, "}", "\n", or one token for a scalar JSON text); a JSON value    *)
(* is a tagged record and a JSON object a set of key/value pairs with      *)
(* unique keys (serde_json::Map).                                          *)
(***************************************************************************)
EXTENDS Integers, Sequences, FiniteSets, TLC

\* Total number of on_event calls explored.
MaxEvents == 2

Threads == {"t1", "t2"}
SpanNames == {"req"}
NoSpan == "none"
Writers == {"stdout", "custom"}

(***************************************************************************)
(* JSON values (serde_json::Value) and text tokens.                        *)
(***************************************************************************)
Null == [ty |-> "null", s |-> "", n |-> 0, m |-> {}]
Str(x) == [ty |-> "str", s |-> x, n |-> 0, m |-> {}]
Num(x) == [ty |-> "num", s |-> "", n |-> x, m |-> {}]
Obj(pairs) == [ty |-> "obj", s |-> "", n |-> 0, m |-> pairs]
Pair(key, val) == [k |-> key, v |-> val]

Open == [t |-> "open", k |-> "", v |-> Null]
Close == [t |-> "close", k |-> "", v |-> Null]
NL == [t |-> "nl", k |-> "", v |-> Null]
Entry(key, val) == [t |-> "entry", k |-> key, v |-> val]
Scalar(val) == [t |-> "scalar", k |-> "", v |-> val]

\* Map::insert: replaces the value of a key already present.
ObjInsert(pairs, key, val) == {p \in pairs : p.k # key} \cup {Pair(key, val)}

\* Option<T>
None == [some |-> FALSE, v |-> Null]
Some(val) == [some |-> TRUE, v |-> val]
OptionValue(o) == IF o.some THEN o.v ELSE Null

(***************************************************************************)
(* serde_json::from_str::<Value>: an object text is "{" entries "}", where *)
(* a later duplicate key replaces an earlier one; a scalar text is one     *)
(* scalar; anything else (empty, truncated) is a syntax error.             *)
(***************************************************************************)
IsObjectText(text) ==
    /\ Len(text) >= 2
    /\ text[1].t = "open"
    /\ text[Len(text)].t = "close"
    /\ \A i \in 2..(Len(text) - 1) : text[i].t = "entry"

RECURSIVE CollectEntries(_, _, _)
CollectEntries(text, i, acc) ==
    IF i > Len(text) - 1 THEN acc
    ELSE CollectEntries(text, i + 1, ObjInsert(acc, text[i].k, text[i].v))

from_str(text) ==
    IF IsObjectText(text) THEN [ok |-> TRUE, v |-> Obj(CollectEntries(text, 2, {}))]
    ELSE IF Len(text) = 1 /\ text[1].t = "scalar" THEN [ok |-> TRUE, v |-> text[1].v]
    ELSE [ok |-> FALSE, v |-> Null]

(***************************************************************************)
(* `fields["name"] = json!(name)`: IndexMut<&str> for Value turns Null     *)
(* into an object, inserts into an object, and panics on any other value.  *)
(***************************************************************************)
IndexPanics(val) == val.ty \notin {"null", "obj"}
IndexAssign(val, key, x) ==
    IF val.ty = "null" THEN Obj({Pair(key, x)}) ELSE Obj(ObjInsert(val.m, key, x))

(***************************************************************************)
(* The layer value and its constructors.                                   *)
(***************************************************************************)
Layers == [make_writer : Writers, log_span : BOOLEAN]

Default == [make_writer |-> "stdout", log_span |-> FALSE]

new == Default

\* with_writer carrying the consumed layer's log_span over.
with_writer_keeping(self, w) == [make_writer |-> w, log_span |-> self.log_span]

with_writer(self, w) == [make_writer |-> w, log_span |-> FALSE]

(***************************************************************************)
(* Events: metadata (level, target, file, line) and the fields the event's *)
(* record callbacks deliver, in order.                                     *)
(***************************************************************************)
Events ==
    { [level |-> "WARN", target |-> "db", file |-> Some(Str("pool.rs")),
       line |-> Some(Num(42)), fields |-> <<Entry("retries", Num(3))>>],
      [level |-> "INFO", target |-> "app", file |-> None,
       line |-> None, fields |-> <<>>],
      [level |-> "ERROR", target |-> "db", file |-> Some(Str("pool.rs")),
       line |-> None, fields |-> <<Entry("span", Str("mine")), Entry("id", Num(7))>>] }

NoEvent == [level |-> "", target |-> "", file |-> None, line |-> None, fields |-> <<>>]

\* tracing_serde's AsSerde for Level serializes the level's name.
LevelAsSerde(level) == Str(level)

\* #[derive(Serialize)] struct SourceLocation { file, line }: an absent member is null.
SourceLocation(ev) ==
    Obj({Pair("file", OptionValue(ev.file)), Pair("line", OptionValue(ev.line))})

\* What self.time (UtcTime<Rfc3339>) formats when format_time is called.
Rfc3339Now == "2026-11-01T00:00:00Z"

\* `let mut time = String::new();` and the format_time call is commented out.
TimeString == ""

\* The envelope with `logger` written before `severity`.
EnvelopeSwapped(ev) ==
    << Entry("time", Str(TimeString)),
       Entry("logger", Str(ev.target)),
       Entry("severity", LevelAsSerde(ev.level)),
       Entry("logging.googleapis.com/sourceLocation", SourceLocation(ev)) >>

Envelope(ev) ==
    << Entry("time", Str(TimeString)),
       Entry("severity", LevelAsSerde(ev.level)),
       Entry("logger", Str(ev.target)),
       Entry("logging.googleapis.com/sourceLocation", SourceLocation(ev)) >>

(***************************************************************************)
(* The span's extension slot FormattedFields<StackdriverFields>.           *)
(***************************************************************************)
NoFields == [present |-> FALSE, text |-> <<>>]
Fields(text) == [present |-> TRUE, text |-> text]

CacheTexts ==
    { <<Open, Close>>,
      <<Open, Entry("id", Num(7)), Close>>,
      <<Open, Entry("name", Str("x")), Entry("id", Num(7)), Close>>,
      <<Open, Entry("id", Num(7))>>,
      <<Scalar(Null)>>,
      <<Scalar(Num(3))>> }

(***************************************************************************)
(* Stackdriver::visit up to and including visitor.finish() (lines 59-103). *)
(* `fault` names the `?` at which the serializer or the visitor returns    *)
(* Err; "none" when every fallible call returns Ok.                        *)
(***************************************************************************)
EnvelopeFaults == {"time", "severity", "logger", "sourceLocation"}
Faults == {"none", "open", "span", "finish"} \cup EnvelopeFaults

\* The envelope entries already written when the entry named by `fault` fails.
EntriesBefore(fault) ==
    CASE fault = "time" -> 0
      [] fault = "severity" -> 1
      [] fault = "logger" -> 2
      [] fault = "sourceLocation" -> 3

Outcome(kind, buf, looked, read, seen) ==
    [kind |-> kind, buf |-> buf, looked |-> looked, read |-> read, seen |-> seen]

\* The span branch taken whatever log_span is.
SpanLoggingAlways(self) == TRUE

\* `if self.log_span`
SpanLogging(self) == self.log_span

\* StackdriverEventVisitor: one entry per record callback, in delivery order.
RecordFields(buf, ev) == buf \o ev.fields

\* visitor.finish(): closes the map.
Finish(buf) == Append(buf, Close)

\* Lines 99-103, after the envelope and the optional span entry.
VisitFields(buf, ev, fault, looked, read, seen) ==
    IF fault = "finish"
    THEN Outcome("Formatting", RecordFields(buf, ev), looked, read, seen)
    ELSE Outcome("ok", Finish(RecordFields(buf, ev)), looked, read, seen)

\* Lines 89-91: parse the cached text and inject `name`.
MergedSpan(parsed, name) == IndexAssign(parsed, "name", Str(name))

\* Lines 81-94: the current span's cached fields, with `name` injected.
SpanEntry(buf, ev, cur, slot, fault) ==
    IF cur = NoSpan THEN VisitFields(buf, ev, fault, TRUE, FALSE, NoFields)
    ELSE IF ~slot.present THEN Outcome("panic", buf, TRUE, TRUE, slot)
    ELSE IF ~from_str(slot.text).ok THEN Outcome("Serialization", buf, TRUE, TRUE, slot)
    ELSE IF IndexPanics(from_str(slot.text).v) THEN Outcome("panic", buf, TRUE, TRUE, slot)
    ELSE IF fault = "span" THEN Outcome("Serialization", buf, TRUE, TRUE, slot)
    ELSE VisitFields(Append(buf, Entry("span", MergedSpan(from_str(slot.text).v, cur))),
                     ev, fault, TRUE, TRUE, slot)

\* Lines 59-103 of Stackdriver::visit.
visit(self, ev, cur, slot, fault) ==
    IF fault = "open" THEN Outcome("Serialization", <<>>, FALSE, FALSE, NoFields)
    ELSE IF fault \in EnvelopeFaults
    THEN Outcome("Serialization",
                 <<Open>> \o SubSeq(Envelope(ev), 1, EntriesBefore(fault)),
                 FALSE, FALSE, NoFields)
    ELSE IF SpanLogging(self)
    THEN SpanEntry(<<Open>> \o Envelope(ev), ev, cur, slot, fault)
    ELSE VisitFields(<<Open>> \o Envelope(ev), ev, fault, FALSE, FALSE, NoFields)

(***************************************************************************)
(* State.                                                                  *)
(***************************************************************************)
VARIABLES
    layer,      \* the Stackdriver value: [make_writer, log_span]
    origin,     \* "literal": built field by field; "ctor": returned by new/default/with_writer
    live,       \* registry: the spans that have been created
    ext,        \* registry: each span's FormattedFields<StackdriverFields> slot
    current,    \* registry: each thread's current span, or NoSpan
    events,     \* on_event calls started so far
    pc,         \* each thread's position in on_event / visit
    event,      \* the event the thread is emitting
    result,     \* the outcome of visit so far (kind) and what it read on the way
    buffer,     \* visit's local `buffer`
    writers,    \* make_writer() calls made for the thread's current event
    payloads    \* the payload of each write_all call on the sink's writer, same event

vars == <<layer, origin, live, ext, current, events, pc, event, result, buffer,
          writers, payloads>>

registry == <<live, ext, current>>
locals == <<event, result, buffer, writers, payloads>>

NoOutcome == Outcome("none", <<>>, FALSE, FALSE, NoFields)

Init ==
    /\ layer \in Layers
    /\ origin = "literal"
    /\ live = [s \in SpanNames |-> FALSE]
    /\ ext = [s \in SpanNames |-> NoFields]
    /\ current = [t \in Threads |-> NoSpan]
    /\ events = 0
    /\ pc = [t \in Threads |-> "idle"]
    /\ event = [t \in Threads |-> NoEvent]
    /\ result = [t \in Threads |-> NoOutcome]
    /\ buffer = [t \in Threads |-> <<>>]
    /\ writers = [t \in Threads |-> 0]
    /\ payloads = [t \in Threads |-> <<>>]

(***************************************************************************)
(* Constructors. They take the layer by value, so they run before the      *)
(* layer is handed to a subscriber: no event has been started.             *)
(***************************************************************************)
New ==
    /\ events = 0
    /\ layer' = new
    /\ origin' = "ctor"
    /\ UNCHANGED <<registry, events, pc, locals>>

WithWriter(w) ==
    /\ events = 0
    /\ layer' = with_writer(layer, w)
    /\ origin' = "ctor"
    /\ UNCHANGED <<registry, events, pc, locals>>

(***************************************************************************)
(* The span registry. Creating a span calls Layer::on_new_span on every    *)
(* layer; impl Layer for Stackdriver defines on_event only, so the trait's *)
(* default runs and the span's extension slot is left as the registry made *)
(* it: empty.                                                              *)
(***************************************************************************)
on_new_span(slot) == slot

NewSpan(s) ==
    /\ ~live[s]
    /\ live' = [live EXCEPT ![s] = TRUE]
    /\ ext' = [ext EXCEPT ![s] = on_new_span(NoFields)]
    /\ UNCHANGED <<layer, origin, current, events, pc, locals>>

\* Another holder of the span's extensions stores a text in the empty slot.
ExtInsert(s, text) ==
    /\ live[s]
    /\ ~ext[s].present
    /\ ext' = [ext EXCEPT ![s] = Fields(text)]
    /\ UNCHANGED <<layer, origin, live, current, events, pc, locals>>

Enter(t, s) ==
    /\ pc[t] = "idle"
    /\ live[s]
    /\ current[t] = NoSpan
    /\ current' = [current EXCEPT ![t] = s]
    /\ UNCHANGED <<layer, origin, live, ext, events, pc, locals>>

Exit(t) ==
    /\ pc[t] = "idle"
    /\ current[t] # NoSpan
    /\ current' = [current EXCEPT ![t] = NoSpan]
    /\ UNCHANGED <<layer, origin, live, ext, events, pc, locals>>

(***************************************************************************)
(* Layer::on_event -> Stackdriver::visit, one thread per event.            *)
(***************************************************************************)
CurrentSlot(t) == IF current[t] = NoSpan THEN NoFields ELSE ext[current[t]]

\* visit going on to make_writer whatever the assembly returned.
AfterAssemblyIgnoringErr(kind) == "assembled"

\* `?` returns from visit and a panic unwinds; Ok goes on to make_writer.
AfterAssembly(kind) == IF kind = "ok" THEN "assembled" ELSE "returning"

\* Lines 59-103.
Assemble(t, ev, fault) ==
    /\ pc[t] = "idle"
    /\ events < MaxEvents
    /\ events' = events + 1
    /\ result' = [result EXCEPT ![t] = visit(layer, ev, current[t], CurrentSlot(t), fault)]
    /\ buffer' = [buffer EXCEPT ![t] = result'[t].buf]
    /\ pc' = [pc EXCEPT ![t] = AfterAssembly(result'[t].kind)]
    /\ event' = [event EXCEPT ![t] = ev]
    /\ writers' = [writers EXCEPT ![t] = 0]
    /\ payloads' = [payloads EXCEPT ![t] = <<>>]
    /\ UNCHANGED <<layer, origin, registry>>

\* Line 106.
MakeWriter(t) ==
    /\ pc[t] = "assembled"
    /\ writers' = [writers EXCEPT ![t] = @ + 1]
    /\ pc' = [pc EXCEPT ![t] = "writer"]
    /\ UNCHANGED <<layer, origin, registry, events, event, result, buffer, payloads>>

\* The buffer handed over without the newline.
WithoutNewline(buf) == buf

\* Line 107: `buffer.write_all(b"\n")?`; Vec<u8>'s write_all always returns Ok.
WithNewline(buf) == Append(buf, NL)

\* Lines 107-109: one write_all on the writer, which the sink accepts or rejects.
WriteAll(t, io_ok) ==
    /\ pc[t] = "writer"
    /\ buffer' = [buffer EXCEPT ![t] = WithNewline(@)]
    /\ payloads' = [payloads EXCEPT ![t] = Append(@, buffer'[t])]
    /\ result' = [result EXCEPT ![t].kind = IF io_ok THEN "ok" ELSE "Io"]
    /\ pc' = [pc EXCEPT ![t] = "returning"]
    /\ UNCHANGED <<layer, origin, registry, events, event, writers>>

\* Lines 130-135: `if let Err(error)` swallows an error; a panic is not caught
\* and unwinds into the code that raised the event.
Return(t) ==
    /\ pc[t] = "returning"
    /\ pc' = [pc EXCEPT ![t] = IF result[t].kind = "panic" THEN "panicked" ELSE "idle"]
    /\ event' = [event EXCEPT ![t] = NoEvent]
    /\ result' = [result EXCEPT ![t] = NoOutcome]
    /\ buffer' = [buffer EXCEPT ![t] = <<>>]
    /\ writers' = [writers EXCEPT ![t] = 0]
    /\ payloads' = [payloads EXCEPT ![t] = <<>>]
    /\ UNCHANGED <<layer, origin, registry, events>>

Next ==
    \/ New
    \/ \E w \in Writers : WithWriter(w)
    \/ \E s \in SpanNames : NewSpan(s)
    \/ \E s \in SpanNames, text \in CacheTexts : ExtInsert(s, text)
    \/ \E t \in Threads, s \in SpanNames : Enter(t, s)
    \/ \E t \in Threads : Exit(t)
    \/ \E t \in Threads, ev \in Events, fault \in Faults : Assemble(t, ev, fault)
    \/ \E t \in Threads : MakeWriter(t)
    \/ \E t \in Threads, io_ok \in BOOLEAN : WriteAll(t, io_ok)
    \/ \E t \in Threads : Return(t)

Spec == Init /\ [][Next]_vars

(***************************************************************************)
(* Vocabulary of the properties.                                           *)
(***************************************************************************)
InFlight(t) == pc[t] \in {"assembled", "writer", "returning"}

\* visit failed before line 106: an Err from a `?`, or a panic.
FailedBeforeWrite(t) ==
    pc[t] = "returning" /\ result[t].kind \in {"Serialization", "Formatting", "Time", "panic"}

\* visit reached the sink: write_all was called (and returned Ok or Err(Io)).
Emitted(t) == payloads[t] # <<>>

\* A payload is a complete document: "{" entries "}" and then one "\n", its last token.
Front(p) == SubSeq(p, 1, Len(p) - 1)
IsDocument(p) ==
    /\ Len(p) >= 3
    /\ p[Len(p)] = NL
    /\ \A i \in 1..(Len(p) - 1) : p[i] # NL
    /\ IsObjectText(Front(p))

\* The top-level entries of a document, in the order written.
DocEntries(p) == SubSeq(p, 2, Len(p) - 2)

\* The entries of the text assembled so far (no newline yet).
TextEntries(b) == SelectSeq(b, LAMBDA tok : tok.t = "entry")

HasCurrentSpan(t) == current[t] # NoSpan
SpanCount(t) == IF layer.log_span /\ HasCurrentSpan(t) THEN 1 ELSE 0

\* C1: for every event, a failure in any step before the sink write leaves the
\* sink untouched (no writer was obtained from make_writer and no write was made,
\* whatever part of the buffer had been built), and whatever the sink does receive
\* is the complete serialized object, never a part of it.
C1_AllOrNothing ==
    \A t \in Threads :
        /\ FailedBeforeWrite(t) => writers[t] = 0 /\ payloads[t] = <<>>
        /\ \A i \in 1..Len(payloads[t]) : IsDocument(payloads[t][i])

\* A visit that failed in the visitor's finish, with the envelope and the fields
\* already in its buffer.
C1_Witness ==
    \E t \in Threads :
        /\ FailedBeforeWrite(t)
        /\ result[t].kind = "Formatting"
        /\ Len(buffer[t]) >= 6

\* The envelope keys of the claim as stated: the fourth key is `sourceLocation`.
StatedEnvelopeKeys == <<"time", "severity", "logger", "sourceLocation">>

\* The envelope keys with the fourth one as the code writes it.
EnvelopeKeys == <<"time", "severity", "logger", "logging.googleapis.com/sourceLocation">>

KeyOrder(keys) ==
    \A t \in Threads :
        Emitted(t) =>
            LET ents == DocEntries(payloads[t][1])
                h == SpanCount(t)
            IN /\ Len(ents) = 4 + h + Len(event[t].fields)
               /\ \A i \in 1..4 : ents[i].k = keys[i]
               /\ h = 1 => ents[5].k = "span"
               /\ SubSeq(ents, 5 + h, Len(ents)) = event[t].fields

\* C2 (as stated): every emitted document has the keys `time`, `severity`,
\* `logger`, `sourceLocation`, then `span` exactly when span-logging is enabled
\* and a current span exists, then the event's fields in delivery order.
C2_KeyOrderAsStated == KeyOrder(StatedEnvelopeKeys)

\* C2 (amended): the same order, the fourth key being
\* `logging.googleapis.com/sourceLocation`.
C2_KeyOrder == KeyOrder(EnvelopeKeys)

\* An emitted document with a span entry and two event fields.
C2_Witness ==
    \E t \in Threads :
        /\ Emitted(t)
        /\ SpanCount(t) = 1
        /\ Len(event[t].fields) = 2

C5_NoSpanWhenDisabled ==
    ~layer.log_span =>
        \A t \in Threads :
            /\ ~result[t].looked
            /\ ~result[t].read
            /\ (InFlight(t) /\ result[t].kind \in {"ok", "Io"}) =>
                  LET ents == TextEntries(buffer[t])
                  IN /\ Len(ents) = 4 + Len(event[t].fields)
                     /\ \A i \in 1..4 : ents[i].k # "span"
                     /\ SubSeq(ents, 5, Len(ents)) = event[t].fields

\* Span-logging is disabled, the current span has a cache, and the event is emitted.
C5_Witness ==
    /\ ~layer.log_span
    /\ \E t \in Threads :
          /\ HasCurrentSpan(t)
          /\ CurrentSlot(t).present
          /\ Emitted(t)

C7_OneWritePerEvent ==
    \A t \in Threads :
        /\ writers[t] <= 1
        /\ Len(payloads[t]) <= 1
        /\ (pc[t] = "returning" /\ result[t].kind \in {"ok", "Io"}) =>
              /\ writers[t] = 1
              /\ Len(payloads[t]) = 1
              /\ IsDocument(payloads[t][1])
              /\ payloads[t][1] = buffer[t]
        /\ FailedBeforeWrite(t) => Len(payloads[t]) = 0

\* Two threads have each completed the write of their own event.
C7_Witness ==
    \A t \in Threads :
        /\ pc[t] = "returning"
        /\ result[t].kind = "ok"
        /\ Len(payloads[t]) = 1

\* C8: `time` is the RFC3339 timestamp the layer's time source formats.
C8_TimeIsRfc3339 ==
    \A t \in Threads :
        Emitted(t) => DocEntries(payloads[t][1])[1] = Entry("time", Str(Rfc3339Now))

\* C9: a span's cache is written at its creation, so every span that exists has
\* one, and whenever visit reads the cache of the current span it is populated.
C9_CacheWrittenAtCreation ==
    /\ \A s \in SpanNames : live[s] => ext[s].present
    /\ \A t \in Threads : result[t].read => result[t].seen.present

\* C10: a layer returned by new, default or with_writer has log_span = false, so
\* no event it handles takes the span branch: no lookup, no cache read, no panic.
C10_ConstructorsDisableSpan ==
    origin = "ctor" =>
        /\ ~layer.log_span
        /\ \A t \in Threads :
              /\ ~result[t].looked
              /\ ~result[t].read
              /\ result[t].kind # "panic"
              /\ pc[t] # "panicked"

\* A layer from with_writer emits an event on a thread whose current span has no cache.
C10_Witness ==
    /\ origin = "ctor"
    /\ layer.make_writer = "custom"
    /\ \E t \in Threads :
          /\ HasCurrentSpan(t)
          /\ ~CurrentSlot(t).present
          /\ Emitted(t)

====
